---------------------------- MODULE Spec2Model ----------------------------
(***************************************************************************)
(* Differentiated-duopoly equilibrium engine (fajardoramz/notes,           *)
(* "endogenous quality/duopoly").                                          *)
(*                                                                         *)
(* Real numbers are exact rationals <<n, d>> with d > 0 in lowest terms;   *)
(* float64 rounding is not represented.  Values the code obtains from      *)
(* exp, sqrt, quad, gamma and the density functions are kept as symbolic   *)
(* records unless they are exactly rational.                               *)
(***************************************************************************)
EXTENDS Integers, Sequences, FiniteSets, TLC

VARIABLES
    fcall,      \* SpecFuncs: the last call of a function of funcs.py, with its value
    duopoly,    \* Spec: the Duopoly instance (its attributes)
    toy,        \* SpecToy: the ToyDuopoly instance (its attributes)
    pc,         \* position inside solve_duopoly / solve_toy
    eq,         \* the root-finder's current candidate <<x1, x2>>
    nit,        \* residual evaluations made by the root-finder so far
    maxiter,    \* the iteration cap given to the call
    F,          \* what FOCS returned for the current candidate
    sol,        \* the OptimizeResult of scipy.optimize.root
    stdout,     \* what the call printed
    ret,        \* the value (or exception) of the last call on the instance
    seeds,      \* SpecSample: the per-draw seeds handed to θ_draws
    out,        \* SpecSample: the array θ_draws fills, per construction
    rng,        \* SpecSample: each worker thread's generator state
    todo,       \* SpecSample: prange iterations not yet handed to a worker
    job,        \* SpecSample: each worker's iteration and position in the body
    inst        \* SpecSample: which construction is running

vars == <<fcall, duopoly, toy, pc, eq, nit, maxiter, F, sol, stdout, ret,
          seeds, out, rng, todo, job, inst>>

funcVars   == <<fcall>>
solveVars  == <<pc, eq, nit, maxiter, F, sol, stdout, ret>>
sampleVars == <<seeds, out, rng, todo, job, inst>>

-----------------------------------------------------------------------------
(* Bounds of the model *)

MaxN == 2       \* largest number N of Monte-Carlo draws
MaxIter == 2    \* largest iteration cap handed to the solver
MaxWorkers == 2 \* threads that run the iterations of a prange loop
MaxSeed == 1    \* master seeds range over 0..MaxSeed

-----------------------------------------------------------------------------
(* Exact rational arithmetic standing for float64 arithmetic.  The         *)
(* operations keep a positive denominator; Norm reduces a value to lowest  *)
(* terms, and every value a function returns is reduced.  The arithmetic   *)
(* is written as functions on pairs so that operands are evaluated once.   *)

GCD[p \in Nat \X Nat] == IF p[2] = 0 THEN p[1] ELSE GCD[<<p[2], p[1] % p[2]>>]

Abs(n) == IF n < 0 THEN -n ELSE n

Rat  == Int \X Int
Rat2 == Rat \X Rat

NormF[a \in Rat] ==
    LET g == GCD[<<Abs(a[1]), Abs(a[2])>>]
    IN  IF a[2] < 0 THEN <<(-a[1]) \div g, (-a[2]) \div g>>
                    ELSE <<a[1] \div g, a[2] \div g>>
AddF[p \in Rat2] == <<p[1][1] * p[2][2] + p[2][1] * p[1][2], p[1][2] * p[2][2]>>
SubF[p \in Rat2] == <<p[1][1] * p[2][2] - p[2][1] * p[1][2], p[1][2] * p[2][2]>>
MulF[p \in Rat2] == <<p[1][1] * p[2][1], p[1][2] * p[2][2]>>
DivF[p \in Rat2] ==
    IF p[2][1] < 0 THEN <<-(p[1][1] * p[2][2]), -(p[1][2] * p[2][1])>>
                   ELSE <<p[1][1] * p[2][2], p[1][2] * p[2][1]>>
CmpF[p \in Rat2] == p[1][1] * p[2][2] - p[2][1] * p[1][2]

R(n, d)    == NormF[<<n, d>>]
Norm(a)    == NormF[a]
RAdd(a, b) == AddF[<<a, b>>]
RSub(a, b) == SubF[<<a, b>>]
RMul(a, b) == MulF[<<a, b>>]
RDiv(a, b) == DivF[<<a, b>>]
REq(a, b)  == CmpF[<<a, b>>] = 0
RLt(a, b)  == CmpF[<<a, b>>] < 0
RLe(a, b)  == CmpF[<<a, b>>] <= 0
RGe(a, b)  == RLe(b, a)
RGt(a, b)  == RLt(b, a)

Zero == <<0, 1>>
One  == <<1, 1>>

IsRat(v)   == v \in Int \X (Nat \ {0})

\* Values that are no rational number are tuples of a length other than 2
DivByZero == <<"ZeroDivisionError">>
NaN       == <<"nan">>

-----------------------------------------------------------------------------
(* Input grids *)

XGrid   == {R(-1, 2), R(0, 1), R(1, 2), R(1, 1)}
TGrid   == {R(0, 1), R(1, 1)}
TPairs  == {tt \in TGrid \X TGrid : RGt(RAdd(tt[1], tt[2]), Zero)}
LamGrid == {R(1, 2), R(2, 1)}
BGrid   == {R(0, 1), R(1, 2), R(1, 1)}
Types   == LamGrid \X {R(0, 1), R(1, 1)}
FGrid   == {R(0, 1), R(1, 1)}
Firms   == {1, 2}

SeqsUpTo(S, n) == UNION {[1..m -> S] : m \in 1..n}
Populations == SeqsUpTo(Types, MaxN)

-----------------------------------------------------------------------------
(* funcs.py *)

c(i, x, lam, g1, g2) ==
    IF i = 1 THEN Norm(RMul(RMul(RDiv(One, g1), lam), RMul(x, x)))
             ELSE Norm(RMul(RMul(RDiv(One, g2), lam), RMul(x, x)))

MC(i, x, mu, g1, g2) ==
    IF i = 1 THEN Norm(RDiv(RMul(RMul(<<2, 1>>, mu), x), g1))
             ELSE Norm(RDiv(RMul(RMul(<<2, 1>>, mu), x), g2))

U(x, lam) ==
    LET nu == Zero
    IN  Norm(RAdd(RMul(lam, x),
                  RMul(nu, RSub(One, RMul(RSub(One, x), RSub(One, x))))))

tc(i, b, t1, t2) ==
    IF i = 1 THEN Norm(RMul(t1, b)) ELSE Norm(RMul(t2, RSub(One, b)))

BoolToInt(v) == IF v THEN 1 ELSE 0

\* D with firm 2 also winning a tie
D_tie_both(i, x1, x2, lam, b, t1, t2) ==
    LET v1 == RSub(U(x1, lam), tc(1, b, t1, t2))
        v2 == RSub(U(x2, lam), tc(2, b, t1, t2))
    IN  IF i = 1 THEN BoolToInt(RGe(v1, v2)) ELSE BoolToInt(RGe(v2, v1))

\* D with firm 1 losing a tie
D_tie_none(i, x1, x2, lam, b, t1, t2) ==
    LET v1 == RSub(U(x1, lam), tc(1, b, t1, t2))
        v2 == RSub(U(x2, lam), tc(2, b, t1, t2))
    IN  IF i = 1 THEN BoolToInt(RGt(v1, v2)) ELSE BoolToInt(RGt(v2, v1))

D(i, x1, x2, lam, b, t1, t2) ==
    LET v1 == RSub(U(x1, lam), tc(1, b, t1, t2))
        v2 == RSub(U(x2, lam), tc(2, b, t1, t2))
    IN  IF i = 1 THEN BoolToInt(RGe(v1, v2)) ELSE BoolToInt(RGt(v2, v1))

\* lambda_tilde with the second test on x1, x2 reversed
lambda_tilde_flipped(x1, x2, b, t1, t2) ==
    LET bbar == RDiv(t2, RAdd(t1, t2))
    IN  IF (RGe(b, bbar) /\ RGe(x1, x2)) \/ (RLt(b, bbar) /\ RGe(x1, x2))
        THEN IF x1 = x2 THEN DivByZero
             ELSE Norm(RDiv(RSub(RMul(b, RAdd(t1, t2)), t2), RSub(x1, x2)))
        ELSE Zero

lambda_tilde(x1, x2, b, t1, t2) ==
    LET bbar == RDiv(t2, RAdd(t1, t2))
    IN  IF (RGe(b, bbar) /\ RGe(x1, x2)) \/ (RLt(b, bbar) /\ RLe(x1, x2))
        THEN IF x1 = x2 THEN DivByZero
             ELSE Norm(RDiv(RSub(RMul(b, RAdd(t1, t2)), t2), RSub(x1, x2)))
        ELSE Zero

RECURSIVE SumD(_, _, _, _, _, _, _)
SumD(i, x1, x2, th, n, t1, t2) ==
    IF n = 0 THEN 0
    ELSE SumD(i, x1, x2, th, n - 1, t1, t2)
         + D(i, x1, x2, th[n][1], th[n][2], t1, t2)

Q(i, x1, x2, th, N, t1, t2) ==
    LET total == SumD(i, x1, x2, th, N, t1, t2)
    IN  R(total, N)

RECURSIVE SumFD(_, _, _, _, _, _, _, _)
SumFD(i, x1, x2, Fth, th, n, t1, t2) ==
    IF n = 0 THEN Zero
    ELSE RAdd(SumFD(i, x1, x2, Fth, th, n - 1, t1, t2),
              RMul(Fth[n], <<D(i, x1, x2, th[n][1], th[n][2], t1, t2), 1>>))

\* EXP_B without the test for a zero share
EXP_B_unguarded(i, x1, x2, Fth, th, N, t1, t2) ==
    LET q == Q(i, x1, x2, th, N, t1, t2)
        total == SumFD(i, x1, x2, Fth, th, N, t1, t2)
    IN  IF REq(q, Zero) THEN NaN ELSE Norm(RDiv(total, RMul(<<N, 1>>, q)))

EXP_B(i, x1, x2, Fth, th, N, t1, t2) ==
    LET q == Q(i, x1, x2, th, N, t1, t2)
    IN  IF REq(q, Zero) THEN Zero
        ELSE LET total == SumFD(i, x1, x2, Fth, th, N, t1, t2)
             IN  Norm(RDiv(total, RMul(<<N, 1>>, q)))


-----------------------------------------------------------------------------
(* numpy functions whose values are irrational in general: exact where the *)
(* value is rational, symbolic otherwise                                   *)

IsSquare(n) == \E k \in 0..n : k * k = n
ISqrt(n)    == CHOOSE k \in 0..n : k * k = n

np_exp(r) ==
    IF REq(r, Zero) THEN One ELSE <<"np", "exp", Norm(r)>>

np_sqrt(r) ==
    LET a == Norm(r)
    IN  IF a[1] >= 0 /\ IsSquare(a[1]) /\ IsSquare(a[2])
        THEN <<ISqrt(a[1]), ISqrt(a[2])>>
        ELSE <<"np", "sqrt", a>>

\* x > x_max(i, g1, g2, mu, p), where x_max = sqrt(g_i * p / mu) and mu > 0
ExceedsXMax(i, x, g1, g2, mu, p) ==
    LET g == IF i = 1 THEN g1 ELSE g2
    IN  RGt(x, Zero) /\ RGt(RMul(RMul(x, x), mu), RMul(g, p))

-----------------------------------------------------------------------------
(* duopoly.py: class Duopoly *)

Column(th, j) == [r \in 1..Len(th) |-> th[r][j]]

\* th stands for the array θ_draws returns for the seeds drawn from `seed`
Duopoly__init__(t1, t2, p, g1, g2, mu_lam, V_lam, k, N, th) ==
    LET sigma_lam == np_sqrt(V_lam)
        E_lam     == np_exp(RAdd(mu_lam, RDiv(V_lam, <<2, 1>>)))
        Var_lam   == <<"np", "mul", <<E_lam, <<"np", "expm1", V_lam>>>>>>
    IN  [class |-> "Duopoly",
         t1 |-> t1, t2 |-> t2, p |-> p, g1 |-> g1, g2 |-> g2,
         mu_lam |-> mu_lam, V_lam |-> V_lam, k |-> k, N |-> N,
         sigma_lam |-> sigma_lam, E_lam |-> E_lam, Var_lam |-> Var_lam,
         theta |-> th, lam |-> Column(th, 1), b |-> Column(th, 2)]

AttributeError == <<"AttributeError">>
IsRaised(v)    == v = AttributeError

GetAttr(self, name) ==
    IF name \in DOMAIN self THEN self[name] ELSE AttributeError

Duopoly_c(self, i, x, lam) == c(i, x, lam, self.g1, self.g2)

Duopoly_mc(self, i, x, lam) == MC(i, x, lam, self.g1, self.g2)

Duopoly_lambda_tilde(self, x1, x2, b) ==
    lambda_tilde(x1, x2, b, self.t1, self.t2)

Duopoly_u(self, x, lam) == U(x, lam)

\* the argument self.t is evaluated before tc is entered
Duopoly_tc(self, i, b) ==
    LET t == GetAttr(self, "t")
    IN  IF IsRaised(t) THEN t ELSE tc(i, b, t, t)

Duopoly_d(self, i, x1, x2, lam, b) ==
    LET t == GetAttr(self, "t")
    IN  IF IsRaised(t) THEN t ELSE D(i, x1, x2, lam, b, t, t)

Duopoly_q(self, i, x1, x2) ==
    Q(i, x1, x2, self.theta, self.N, self.t1, self.t2)

Duopoly_E_TC(self, i, x1, x2) ==
    LET q == Duopoly_q(self, i, x1, x2)
    IN  IF REq(q, Zero) THEN Zero
        ELSE LET Fth == IF i = 1
                        THEN [r \in 1..self.N |-> Duopoly_c(self, i, x1, self.lam[r])]
                        ELSE [r \in 1..self.N |-> Duopoly_c(self, i, x2, self.lam[r])]
             IN  Norm(RMul(q, EXP_B(i, x1, x2, Fth, self.theta, self.N,
                                    self.t1, self.t2)))

Duopoly_Pi(self, i, x1, x2) ==
    LET q == Duopoly_q(self, i, x1, x2)
    IN  Norm(RSub(RMul(q, self.p), Duopoly_E_TC(self, i, x1, x2)))

\* quad(Z, ...) integrates densities built from exp, log and gamma: the
\* integral is kept as a term naming the integrand and the interval
Duopoly_FOC(self, i, x1, x2) ==
    LET q   == Duopoly_q(self, i, x1, x2)
        Fth == IF i = 1
               THEN [r \in 1..self.N |-> Duopoly_mc(self, 1, x1, self.lam[r])]
               ELSE [r \in 1..self.N |-> Duopoly_mc(self, 2, x2, self.lam[r])]
        Exp_B_mc == EXP_B(i, x1, x2, Fth, self.theta, self.N, self.t1, self.t2)
        int_Z_M  == IF RGt(x1, x2)
                    THEN <<"quad", "Z", i, x1, x2, "b_bar..1", 1>>
                    ELSE <<"quad", "Z", i, x1, x2, "0..b_bar", -1>>
    IN  <<"sum", "FOC", Norm(RSub(Zero, RMul(q, Exp_B_mc))), int_Z_M>>

-----------------------------------------------------------------------------
(* solvers.py: solve_duopoly *)

\* a float literal m e E, as mantissa and decimal exponent without trailing zeros
RECURSIVE Sci(_, _)
Sci(m, e) == IF m # 0 /\ m % 10 = 0 THEN Sci(m \div 10, e + 1) ELSE <<"float", m, e>>

Penalty == Sci(10, 9)

duopoly_FOCS(d, e) ==
    LET x1 == e[1]
        x2 == e[2]
        foc_1 == Duopoly_FOC(d, 1, x1, x2)
        foc_2 == Duopoly_FOC(d, 2, x1, x2)
        Pi1 == Duopoly_Pi(d, 1, x1, x2)
        Pi2 == Duopoly_Pi(d, 2, x1, x2)
        q1 == Duopoly_q(d, 1, x1, x2)
        q2 == Duopoly_q(d, 2, x1, x2)
    IN  << IF RLt(x1, Zero) \/ RLt(Pi1, Zero) \/ REq(q1, Zero) THEN Penalty ELSE foc_1,
           IF RLt(x2, Zero) \/ RLt(Pi2, Zero) \/ REq(q2, Zero) THEN Penalty ELSE foc_2 >>

ResultFields == {"x1", "x2", "q1", "q2", "q", "foc_x1", "foc_x2", "pi1", "pi2"}

duopoly_success_result(d, x) ==
    LET x1_sol == x[1]
        x2_sol == x[2]
        q1 == Duopoly_q(d, 1, x1_sol, x2_sol)
        q2 == Duopoly_q(d, 2, x1_sol, x2_sol)
    IN  [x1 |-> x1_sol, x2 |-> x2_sol, q1 |-> q1, q2 |-> q2,
         q |-> Norm(RAdd(q1, q2)),
         foc_x1 |-> Duopoly_FOC(d, 1, x1_sol, x2_sol),
         foc_x2 |-> Duopoly_FOC(d, 2, x1_sol, x2_sol),
         pi1 |-> Duopoly_Pi(d, 1, x1_sol, x2_sol),
         pi2 |-> Duopoly_Pi(d, 2, x1_sol, x2_sol)]

\* the failure result with the keys of an earlier model
stale_failure_result ==
    [p |-> NaN, x |-> NaN, Q |-> NaN, foc_p |-> NaN, foc_x |-> NaN]

duopoly_failure_result ==
    [x1 |-> NaN, x2 |-> NaN, q1 |-> NaN, q2 |-> NaN, q |-> NaN,
     foc_x1 |-> NaN, foc_x2 |-> NaN, pi1 |-> NaN, pi2 |-> NaN]

\* scipy.optimize.root: the messages of its OptimizeResult
MsgConverged == "A solution was found at the specified tolerance."
MsgMaxiter   == "The maximum number of iterations allowed has been reached."
MsgStalled   == "The iteration is not making good progress."

-----------------------------------------------------------------------------
(* funcs_toy.py and toy.py: class ToyDuopoly *)

toy_C(i, x, mu, g1, g2) ==
    IF i = 1 THEN Norm(RMul(RMul(RDiv(One, g1), mu), RMul(x, x)))
             ELSE Norm(RMul(RMul(RDiv(One, g2), mu), RMul(x, x)))

toy_MC(i, x, mu, g1, g2) ==
    IF i = 1 THEN Norm(RDiv(RMul(RMul(<<2, 1>>, mu), x), g1))
             ELSE Norm(RDiv(RMul(RMul(<<2, 1>>, mu), x), g2))

RMax(a, b) == IF RGe(a, b) THEN a ELSE b
RMin(a, b) == IF RLe(a, b) THEN a ELSE b

toy_b_m(x1, x2, t, mu) ==
    LET b0 == RMul(RDiv(One, RMul(<<2, 1>>, t)), RAdd(RMul(mu, RSub(x1, x2)), t))
        b1 == RMax(Zero, b0)
        b2 == RMin(One, b1)
    IN  Norm(b2)

toy_Q(i, x1, x2, t, mu) ==
    IF i = 1 THEN toy_b_m(x1, x2, t, mu)
             ELSE Norm(RSub(One, toy_b_m(x1, x2, t, mu)))

toy_Pi(i, x1, x2, t, mu, p, g1, g2) ==
    LET x == IF i = 1 THEN x1 ELSE x2
    IN  Norm(RMul(toy_Q(i, x1, x2, t, mu), RSub(p, toy_C(i, x, mu, g1, g2))))

toy_FOC(i, x1, x2, t, mu, p, g1, g2) ==
    LET dQ == RMul(RDiv(One, RMul(<<2, 1>>, t)), mu)
        x  == IF i = 1 THEN x1 ELSE x2
        A1 == RMul(dQ, RSub(p, toy_C(i, x, mu, g1, g2)))
        A2 == RMul(toy_Q(i, x1, x2, t, mu), toy_MC(i, x, mu, g1, g2))
    IN  Norm(RSub(A1, A2))

ToyDuopoly__init__(t, mu, p, g1, g2) ==
    [class |-> "ToyDuopoly", t |-> t, mu |-> mu, p |-> p, g1 |-> g1, g2 |-> g2]

ToyDuopoly_q(self, i, x1, x2) == toy_Q(i, x1, x2, self.t, self.mu)

ToyDuopoly_pi(self, i, x1, x2) ==
    toy_Pi(i, x1, x2, self.t, self.mu, self.p, self.g1, self.g2)

ToyDuopoly_foc(self, i, x1, x2) ==
    toy_FOC(i, x1, x2, self.t, self.mu, self.p, self.g1, self.g2)

\* x > toy.x_max(i)
ToyDuopoly_above_x_max(self, i, x) ==
    ExceedsXMax(i, x, self.g1, self.g2, self.mu, self.p)

-----------------------------------------------------------------------------
(* solvers.py: solve_toy *)

toy_FOCS(ty, e) ==
    LET x1 == e[1]
        x2 == e[2]
        foc_1 == ToyDuopoly_foc(ty, 1, x1, x2)
        foc_2 == ToyDuopoly_foc(ty, 2, x1, x2)
    IN  << IF \/ ToyDuopoly_above_x_max(ty, 1, x1)
              \/ RLt(x1, Zero)
              \/ RLt(ToyDuopoly_pi(ty, 1, x1, x2), Zero)
           THEN Penalty ELSE foc_1,
           IF \/ ToyDuopoly_above_x_max(ty, 2, x2)
              \/ RLt(x2, Zero)
              \/ RLt(ToyDuopoly_pi(ty, 2, x1, x2), Zero)
           THEN Penalty ELSE foc_2 >>

toy_success_result(ty, x) ==
    LET x1_sol == x[1]
        x2_sol == x[2]
        q1 == ToyDuopoly_q(ty, 1, x1_sol, x2_sol)
        q2 == ToyDuopoly_q(ty, 2, x1_sol, x2_sol)
    IN  [x1 |-> x1_sol, x2 |-> x2_sol, q1 |-> q1, q2 |-> q2,
         q |-> Norm(RAdd(q1, q2)),
         foc_x1 |-> ToyDuopoly_foc(ty, 1, x1_sol, x2_sol),
         foc_x2 |-> ToyDuopoly_foc(ty, 2, x1_sol, x2_sol),
         pi1 |-> ToyDuopoly_pi(ty, 1, x1_sol, x2_sol),
         pi2 |-> ToyDuopoly_pi(ty, 2, x1_sol, x2_sol)]

toy_failure_result ==
    [p |-> NaN, x |-> NaN, Q |-> NaN, foc_p |-> NaN, foc_x |-> NaN]

-----------------------------------------------------------------------------
(* funcs.py: θ_draws, and the seeds Duopoly.__init__ makes for it.  A       *)
(* generator state is the seed it was last given and the number of draws   *)
(* taken since; a drawn value is a term over the state it was drawn from.  *)

Workers == 1..MaxWorkers

\* np.random.seed(seed); np.random.randint(0, 2**32-1, N)
MakeSeeds(seed, N) == [r \in 1..N |-> <<"randint", seed, r>>]

SeededState(s)  == <<"state", s, 0>>
Advance(st)     == <<"state", st[2], st[3] + 1>>
UnseededState(w) == <<"state", <<"thread", w>>, 0>>

\* inside an njit function np.random is the generator of the running thread
generator_of_shared(w) == 1

generator_of(w) == w

np_random_normal(st, mu, sigma) == <<"normal", mu, sigma, st>>
np_random_beta(st, a, b)        == <<"beta", a, b, st>>

draw_lam(st, cf) == <<"np", "exp", np_random_normal(st, cf.mu_lam, cf.sigma_lam)>>

beta_shape(lam, cf) ==
    IF cf.beta_ind = 1
    THEN <<cf.alpha, cf.beta>>
    ELSE LET a == <<"add", <<1, 2>>, <<"div", <<"mul", cf.k, cf.E_lam>>, lam>>>>
         IN  <<a, a>>

draw_b(st, lam, cf) ==
    LET ab == beta_shape(lam, cf)
    IN  np_random_beta(st, ab[1], ab[2])

\* row r of the array as the loop body computes it from seeds[r] alone
ReferenceRow(sd, cf) ==
    LET s0  == SeededState(sd)
        lam == draw_lam(s0, cf)
    IN  <<lam, draw_b(Advance(s0), lam, cf)>>

EmptyRow == <<"uninitialized">>

-----------------------------------------------------------------------------
(* Values of the variables a specification does not use *)

NoCall   == [fn |-> "none"]
NoObject == [class |-> "none"]
NoValue  == "none"

FuncsUnused  == fcall = NoCall
ObjectUnused == duopoly = NoObject /\ toy = NoObject
SolveUnused  ==
    /\ pc = "unused" /\ eq = NoValue /\ nit = 0 /\ maxiter = 0
    /\ F = NoValue /\ sol = NoValue /\ stdout = <<>> /\ ret = NoCall
SampleUnused ==
    /\ seeds = <<>> /\ out = <<>> /\ rng = <<>>
    /\ todo = {} /\ job = <<>> /\ inst = 0

-----------------------------------------------------------------------------
(* SpecFuncs: the functions of funcs.py applied to inputs from the grids *)

Call_U ==
    /\ fcall = NoCall
    /\ \E x \in XGrid, lam \in LamGrid :
        fcall' = [fn |-> "U", args |-> [x |-> x, lam |-> lam],
                  val |-> U(x, lam)]
    /\ UNCHANGED <<duopoly, toy, solveVars, sampleVars>>

Call_tc ==
    /\ fcall = NoCall
    /\ \E i \in Firms, b \in BGrid, tt \in TPairs :
        fcall' = [fn |-> "tc", args |-> [i |-> i, b |-> b, t1 |-> tt[1], t2 |-> tt[2]],
                  val |-> tc(i, b, tt[1], tt[2])]
    /\ UNCHANGED <<duopoly, toy, solveVars, sampleVars>>

Call_D ==
    /\ fcall = NoCall
    /\ \E i \in Firms, x1 \in XGrid, x2 \in XGrid, lam \in LamGrid, b \in BGrid,
          tt \in TPairs :
        fcall' = [fn |-> "D",
                  args |-> [i |-> i, x1 |-> x1, x2 |-> x2, lam |-> lam,
                            b |-> b, t1 |-> tt[1], t2 |-> tt[2]],
                  val |-> D(i, x1, x2, lam, b, tt[1], tt[2])]
    /\ UNCHANGED <<duopoly, toy, solveVars, sampleVars>>

Call_lambda_tilde ==
    /\ fcall = NoCall
    /\ \E x1 \in XGrid, x2 \in XGrid, b \in BGrid, tt \in TPairs :
        fcall' = [fn |-> "lambda_tilde",
                  args |-> [x1 |-> x1, x2 |-> x2, b |-> b, t1 |-> tt[1], t2 |-> tt[2]],
                  val |-> lambda_tilde(x1, x2, b, tt[1], tt[2])]
    /\ UNCHANGED <<duopoly, toy, solveVars, sampleVars>>

Call_Q ==
    /\ fcall = NoCall
    /\ \E i \in Firms, x1 \in XGrid, x2 \in XGrid, th \in Populations, tt \in TPairs :
        fcall' = [fn |-> "Q",
                  args |-> [i |-> i, x1 |-> x1, x2 |-> x2, th |-> th,
                            N |-> Len(th), t1 |-> tt[1], t2 |-> tt[2]],
                  val |-> Q(i, x1, x2, th, Len(th), tt[1], tt[2])]
    /\ UNCHANGED <<duopoly, toy, solveVars, sampleVars>>

Call_EXP_B ==
    /\ fcall = NoCall
    /\ \E i \in Firms, x1 \in XGrid, x2 \in XGrid, th \in Populations, tt \in TPairs :
        \E Fth \in [1..Len(th) -> FGrid] :
            fcall' = [fn |-> "EXP_B",
                      args |-> [i |-> i, x1 |-> x1, x2 |-> x2, Fth |-> Fth, th |-> th,
                                N |-> Len(th), t1 |-> tt[1], t2 |-> tt[2]],
                      val |-> EXP_B(i, x1, x2, Fth, th, Len(th), tt[1], tt[2])]
    /\ UNCHANGED <<duopoly, toy, solveVars, sampleVars>>

Return_func ==
    /\ fcall # NoCall
    /\ fcall' = NoCall
    /\ UNCHANGED <<duopoly, toy, solveVars, sampleVars>>



InitFuncs == FuncsUnused /\ ObjectUnused /\ SolveUnused /\ SampleUnused

NextFuncs ==
    \/ Call_U
    \/ Call_tc
    \/ Call_D
    \/ Call_lambda_tilde
    \/ Call_Q
    \/ Call_EXP_B
    \/ Return_func

SpecFuncs == InitFuncs /\ [][NextFuncs]_vars

-----------------------------------------------------------------------------
(* Spec: one Duopoly instance, its query methods and solve_duopoly *)

Configs ==
    { [t1 |-> <<1, 1>>, t2 |-> <<1, 1>>, p |-> <<2, 1>>, g1 |-> <<3, 2>>,
       g2 |-> <<1, 1>>, mu_lam |-> <<0, 1>>, V_lam |-> <<1, 1>>, k |-> <<1, 1>>],
      [t1 |-> <<1, 1>>, t2 |-> <<1, 1>>, p |-> <<1, 2>>, g1 |-> <<3, 2>>,
       g2 |-> <<1, 1>>, mu_lam |-> <<-1, 2>>, V_lam |-> <<1, 1>>, k |-> <<1, 1>>] }

Instances ==
    { Duopoly__init__(cf.t1, cf.t2, cf.p, cf.g1, cf.g2, cf.mu_lam, cf.V_lam, cf.k,
                      Len(th), th) : cf \in Configs, th \in Populations }

Idle == pc = "idle" /\ ret = NoCall

Query_c ==
    /\ Idle
    /\ \E i \in Firms, x \in XGrid, lam \in LamGrid :
        ret' = [fn |-> "c", args |-> <<i, x, lam>>, val |-> Duopoly_c(duopoly, i, x, lam)]
    /\ UNCHANGED <<duopoly, pc, eq, nit, maxiter, F, sol, stdout>>
    /\ UNCHANGED <<fcall, toy, sampleVars>>

Query_mc ==
    /\ Idle
    /\ \E i \in Firms, x \in XGrid, lam \in LamGrid :
        ret' = [fn |-> "mc", args |-> <<i, x, lam>>, val |-> Duopoly_mc(duopoly, i, x, lam)]
    /\ UNCHANGED <<duopoly, pc, eq, nit, maxiter, F, sol, stdout>>
    /\ UNCHANGED <<fcall, toy, sampleVars>>

Query_u ==
    /\ Idle
    /\ \E x \in XGrid, lam \in LamGrid :
        ret' = [fn |-> "u", args |-> <<x, lam>>, val |-> Duopoly_u(duopoly, x, lam)]
    /\ UNCHANGED <<duopoly, pc, eq, nit, maxiter, F, sol, stdout>>
    /\ UNCHANGED <<fcall, toy, sampleVars>>

Query_lambda_tilde ==
    /\ Idle
    /\ \E x1 \in XGrid, x2 \in XGrid, b \in BGrid :
        ret' = [fn |-> "lambda_tilde", args |-> <<x1, x2, b>>,
                val |-> Duopoly_lambda_tilde(duopoly, x1, x2, b)]
    /\ UNCHANGED <<duopoly, pc, eq, nit, maxiter, F, sol, stdout>>
    /\ UNCHANGED <<fcall, toy, sampleVars>>

Query_tc ==
    /\ Idle
    /\ \E i \in Firms, b \in BGrid :
        ret' = [fn |-> "tc", args |-> <<i, b>>, val |-> Duopoly_tc(duopoly, i, b)]
    /\ UNCHANGED <<duopoly, pc, eq, nit, maxiter, F, sol, stdout>>
    /\ UNCHANGED <<fcall, toy, sampleVars>>

Query_d ==
    /\ Idle
    /\ \E i \in Firms, x1 \in XGrid, x2 \in XGrid, r \in 1..duopoly.N :
        ret' = [fn |-> "d", args |-> <<i, x1, x2, duopoly.lam[r], duopoly.b[r]>>,
                val |-> Duopoly_d(duopoly, i, x1, x2, duopoly.lam[r], duopoly.b[r])]
    /\ UNCHANGED <<duopoly, pc, eq, nit, maxiter, F, sol, stdout>>
    /\ UNCHANGED <<fcall, toy, sampleVars>>

Query_q ==
    /\ Idle
    /\ \E i \in Firms, x1 \in XGrid, x2 \in XGrid :
        ret' = [fn |-> "q", args |-> <<i, x1, x2>>, val |-> Duopoly_q(duopoly, i, x1, x2)]
    /\ UNCHANGED <<duopoly, pc, eq, nit, maxiter, F, sol, stdout>>
    /\ UNCHANGED <<fcall, toy, sampleVars>>

\* E_TC computing the costs in place, in the array self.λ
Query_E_TC_in_place ==
    /\ Idle
    /\ \E i \in Firms, x1 \in XGrid, x2 \in XGrid :
        /\ ret' = [fn |-> "E_TC", args |-> <<i, x1, x2>>,
                   val |-> Duopoly_E_TC(duopoly, i, x1, x2)]
        /\ duopoly' = [duopoly EXCEPT
                          !.lam = [r \in 1..duopoly.N |->
                                     Duopoly_c(duopoly, i, IF i = 1 THEN x1 ELSE x2,
                                               duopoly.lam[r])]]
    /\ UNCHANGED <<pc, eq, nit, maxiter, F, sol, stdout>>
    /\ UNCHANGED <<fcall, toy, sampleVars>>

Query_E_TC ==
    /\ Idle
    /\ \E i \in Firms, x1 \in XGrid, x2 \in XGrid :
        ret' = [fn |-> "E_TC", args |-> <<i, x1, x2>>,
                val |-> Duopoly_E_TC(duopoly, i, x1, x2)]
    /\ UNCHANGED <<duopoly, pc, eq, nit, maxiter, F, sol, stdout>>
    /\ UNCHANGED <<fcall, toy, sampleVars>>

Query_Pi ==
    /\ Idle
    /\ \E i \in Firms, x1 \in XGrid, x2 \in XGrid :
        ret' = [fn |-> "Pi", args |-> <<i, x1, x2>>, val |-> Duopoly_Pi(duopoly, i, x1, x2)]
    /\ UNCHANGED <<duopoly, pc, eq, nit, maxiter, F, sol, stdout>>
    /\ UNCHANGED <<fcall, toy, sampleVars>>

Query_FOC ==
    /\ Idle
    /\ \E i \in Firms, x1 \in XGrid, x2 \in XGrid :
        ret' = [fn |-> "FOC", args |-> <<i, x1, x2>>, val |-> Duopoly_FOC(duopoly, i, x1, x2)]
    /\ UNCHANGED <<duopoly, pc, eq, nit, maxiter, F, sol, stdout>>
    /\ UNCHANGED <<fcall, toy, sampleVars>>

\* solve_duopoly(duopoly, x1_0, x2_0, method, maxiter) up to the call of root
solve_duopoly_call ==
    /\ Idle
    /\ \E x1_0 \in XGrid, x2_0 \in XGrid, mi \in 1..MaxIter :
        /\ eq' = <<x1_0, x2_0>>
        /\ maxiter' = mi
    /\ pc' = "root"
    /\ nit' = 0
    /\ F' = NoValue
    /\ sol' = NoValue
    /\ stdout' = <<>>
    /\ UNCHANGED <<duopoly, ret>>
    /\ UNCHANGED <<fcall, toy, sampleVars>>

\* root evaluates FOCS at its candidate
root_evaluate ==
    /\ pc = "root"
    /\ nit < maxiter
    /\ F' = duopoly_FOCS(duopoly, eq)
    /\ nit' = nit + 1
    /\ pc' = "evaluated"
    /\ UNCHANGED <<duopoly, eq, maxiter, sol, stdout, ret>>
    /\ UNCHANGED <<fcall, toy, sampleVars>>

\* root moves to its next candidate
root_step ==
    /\ pc = "evaluated"
    /\ \E x1 \in XGrid, x2 \in XGrid : eq' = <<x1, x2>>
    /\ F' = NoValue
    /\ pc' = "root"
    /\ UNCHANGED <<nit, maxiter, sol, stdout, ret>>
    /\ UNCHANGED <<fcall, duopoly, toy, sampleVars>>

\* root finds the residual within tolerance: no component is the penalty
root_converged ==
    /\ pc = "evaluated"
    /\ F[1] # Penalty /\ F[2] # Penalty
    /\ sol' = [success |-> TRUE, x |-> eq, message |-> MsgConverged]
    /\ pc' = "returned"
    /\ UNCHANGED <<eq, nit, maxiter, F, stdout, ret>>
    /\ UNCHANGED <<fcall, duopoly, toy, sampleVars>>

\* root exhausts the iteration cap
root_exhausted ==
    /\ pc = "root"
    /\ nit >= maxiter
    /\ sol' = [success |-> FALSE, x |-> eq, message |-> MsgMaxiter]
    /\ pc' = "returned"
    /\ UNCHANGED <<eq, nit, maxiter, F, stdout, ret>>
    /\ UNCHANGED <<fcall, duopoly, toy, sampleVars>>

\* root gives up for another reason of the chosen method
root_stalled ==
    /\ pc = "evaluated"
    /\ sol' = [success |-> FALSE, x |-> eq, message |-> MsgStalled]
    /\ pc' = "returned"
    /\ UNCHANGED <<eq, nit, maxiter, F, stdout, ret>>
    /\ UNCHANGED <<fcall, duopoly, toy, sampleVars>>

\* solve_duopoly after root has returned
solve_duopoly_return ==
    /\ pc = "returned"
    /\ IF sol.success
       THEN /\ ret' = [fn |-> "solve_duopoly", args |-> <<>>,
                       val |-> duopoly_success_result(duopoly, sol.x)]
            /\ stdout' = stdout
       ELSE /\ stdout' = Append(stdout, <<"Optimization failed:", sol.message>>)
            /\ ret' = [fn |-> "solve_duopoly", args |-> <<>>,
                       val |-> duopoly_failure_result]
    /\ pc' = "done"
    /\ UNCHANGED <<duopoly, eq, nit, maxiter, F, sol>>
    /\ UNCHANGED <<fcall, toy, sampleVars>>

\* the caller takes the value; the locals of the call are gone
Return ==
    /\ ret # NoCall
    /\ pc \in {"idle", "done"}
    /\ ret' = NoCall
    /\ pc' = "idle"
    /\ eq' = NoValue /\ nit' = 0 /\ maxiter' = 0 /\ F' = NoValue /\ sol' = NoValue
    /\ stdout' = <<>>
    /\ UNCHANGED <<fcall, duopoly, toy, sampleVars>>

Init ==
    /\ duopoly \in Instances
    /\ toy = NoObject
    /\ pc = "idle" /\ eq = NoValue /\ nit = 0 /\ maxiter = 0
    /\ F = NoValue /\ sol = NoValue /\ stdout = <<>> /\ ret = NoCall
    /\ FuncsUnused
    /\ SampleUnused

Next ==
    \/ Query_c
    \/ Query_mc
    \/ Query_u
    \/ Query_lambda_tilde
    \/ Query_tc
    \/ Query_d
    \/ Query_q
    \/ Query_E_TC
    \/ Query_Pi
    \/ Query_FOC
    \/ solve_duopoly_call
    \/ root_evaluate
    \/ root_step
    \/ root_converged
    \/ root_exhausted
    \/ root_stalled
    \/ solve_duopoly_return
    \/ Return

Spec == Init /\ [][Next]_vars

-----------------------------------------------------------------------------
(* SpecToy: one ToyDuopoly instance and solve_toy *)

ToyConfigs ==
    { [t |-> <<1, 1>>, mu |-> <<10, 1>>, p |-> <<10, 1>>, g1 |-> <<3, 2>>, g2 |-> <<1, 1>>],
      [t |-> <<1, 1>>, mu |-> <<2, 1>>, p |-> <<1, 2>>, g1 |-> <<3, 2>>, g2 |-> <<1, 1>>],
      [t |-> <<2, 1>>, mu |-> <<1, 1>>, p |-> <<1, 1>>, g1 |-> <<1, 1>>, g2 |-> <<1, 1>>] }

ToyInstances ==
    { ToyDuopoly__init__(cf.t, cf.mu, cf.p, cf.g1, cf.g2) : cf \in ToyConfigs }

ToyQuery_q ==
    /\ Idle
    /\ \E i \in Firms, x1 \in XGrid, x2 \in XGrid :
        ret' = [fn |-> "q", args |-> <<i, x1, x2>>, val |-> ToyDuopoly_q(toy, i, x1, x2)]
    /\ UNCHANGED <<toy, pc, eq, nit, maxiter, F, sol, stdout>>
    /\ UNCHANGED <<fcall, duopoly, sampleVars>>

ToyQuery_pi ==
    /\ Idle
    /\ \E i \in Firms, x1 \in XGrid, x2 \in XGrid :
        ret' = [fn |-> "pi", args |-> <<i, x1, x2>>, val |-> ToyDuopoly_pi(toy, i, x1, x2)]
    /\ UNCHANGED <<toy, pc, eq, nit, maxiter, F, sol, stdout>>
    /\ UNCHANGED <<fcall, duopoly, sampleVars>>

ToyQuery_foc ==
    /\ Idle
    /\ \E i \in Firms, x1 \in XGrid, x2 \in XGrid :
        ret' = [fn |-> "foc", args |-> <<i, x1, x2>>, val |-> ToyDuopoly_foc(toy, i, x1, x2)]
    /\ UNCHANGED <<toy, pc, eq, nit, maxiter, F, sol, stdout>>
    /\ UNCHANGED <<fcall, duopoly, sampleVars>>

\* solve_toy(toy, x1_0, x2_0, method) up to the call of root; maxiter stands
\* for the evaluation budget of the chosen method
solve_toy_call ==
    /\ Idle
    /\ \E x1_0 \in XGrid, x2_0 \in XGrid, mi \in 1..MaxIter :
        /\ eq' = <<x1_0, x2_0>>
        /\ maxiter' = mi
    /\ pc' = "root"
    /\ nit' = 0
    /\ F' = NoValue
    /\ sol' = NoValue
    /\ stdout' = <<>>
    /\ UNCHANGED <<toy, ret>>
    /\ UNCHANGED <<fcall, duopoly, sampleVars>>

toy_root_evaluate ==
    /\ pc = "root"
    /\ nit < maxiter
    /\ F' = toy_FOCS(toy, eq)
    /\ nit' = nit + 1
    /\ pc' = "evaluated"
    /\ UNCHANGED <<toy, eq, maxiter, sol, stdout, ret>>
    /\ UNCHANGED <<fcall, duopoly, sampleVars>>

solve_toy_return ==
    /\ pc = "returned"
    /\ IF sol.success
       THEN /\ ret' = [fn |-> "solve_toy", args |-> <<>>,
                       val |-> toy_success_result(toy, sol.x)]
            /\ stdout' = stdout
       ELSE /\ stdout' = Append(stdout, <<"Optimization failed:", sol.message>>)
            /\ ret' = [fn |-> "solve_toy", args |-> <<>>, val |-> toy_failure_result]
    /\ pc' = "done"
    /\ UNCHANGED <<toy, eq, nit, maxiter, F, sol>>
    /\ UNCHANGED <<fcall, duopoly, sampleVars>>

InitToy ==
    /\ toy \in ToyInstances
    /\ duopoly = NoObject
    /\ pc = "idle" /\ eq = NoValue /\ nit = 0 /\ maxiter = 0
    /\ F = NoValue /\ sol = NoValue /\ stdout = <<>> /\ ret = NoCall
    /\ FuncsUnused
    /\ SampleUnused

NextToy ==
    \/ ToyQuery_q
    \/ ToyQuery_pi
    \/ ToyQuery_foc
    \/ solve_toy_call
    \/ toy_root_evaluate
    \/ root_step
    \/ root_converged
    \/ root_exhausted
    \/ root_stalled
    \/ solve_toy_return
    \/ Return

SpecToy == InitToy /\ [][NextToy]_vars

-----------------------------------------------------------------------------
(* SpecSample: two constructions with one configuration, each running the   *)
(* prange loop of θ_draws on the worker threads                            *)

SampleConfigs ==
    { [seed |-> sd, N |-> n, mu_lam |-> <<0, 1>>, sigma_lam |-> <<1, 1>>,
       E_lam |-> <<"np", "exp", <<1, 2>>>>, k |-> <<1, 1>>, beta_ind |-> bi,
       alpha |-> <<1, 1>>, beta |-> <<1, 1>>] :
      sd \in 0..MaxSeed, n \in 1..MaxN, bi \in {0, 1} }

IdleJob == [step |-> "idle"]

\* Duopoly.__init__ draws the seeds and enters θ_draws: np.empty((N, 2))
theta_draws_call ==
    /\ inst < 2
    /\ todo = {}
    /\ \A w \in Workers : job[w] = IdleJob
    /\ inst' = inst + 1
    /\ seeds' = MakeSeeds(duopoly.seed, duopoly.N)
    /\ out' = Append(out, [r \in 1..duopoly.N |-> EmptyRow])
    /\ todo' = 1..duopoly.N
    /\ UNCHANGED <<rng, job, duopoly>>
    /\ UNCHANGED <<fcall, toy, solveVars>>

\* a thread takes an iteration r of the prange loop
prange_take(w) ==
    /\ job[w] = IdleJob
    /\ \E r \in todo :
        /\ todo' = todo \ {r}
        /\ job' = [job EXCEPT ![w] = [step |-> "seed", r |-> r]]
    /\ UNCHANGED <<seeds, out, rng, inst, duopoly>>
    /\ UNCHANGED <<fcall, toy, solveVars>>

\* np.random.seed(seeds[r])
body_seed(w) ==
    /\ job[w].step = "seed"
    /\ rng' = [rng EXCEPT ![generator_of(w)] = SeededState(seeds[job[w].r])]
    /\ job' = [job EXCEPT ![w] = [step |-> "normal", r |-> job[w].r]]
    /\ UNCHANGED <<seeds, out, todo, inst, duopoly>>
    /\ UNCHANGED <<fcall, toy, solveVars>>

\* λ = np.exp(np.random.normal(μ_λ, σ_λ))
body_normal(w) ==
    /\ job[w].step = "normal"
    /\ LET g == generator_of(w)
       IN  /\ job' = [job EXCEPT ![w] = [step |-> "beta", r |-> job[w].r,
                                         lam |-> draw_lam(rng[g], duopoly)]]
           /\ rng' = [rng EXCEPT ![g] = Advance(rng[g])]
    /\ UNCHANGED <<seeds, out, todo, inst, duopoly>>
    /\ UNCHANGED <<fcall, toy, solveVars>>

\* the choice of α, β and b = np.random.beta(a=α, b=β)
body_beta(w) ==
    /\ job[w].step = "beta"
    /\ LET g == generator_of(w)
       IN  /\ job' = [job EXCEPT ![w] = [step |-> "write", r |-> job[w].r,
                                         lam |-> job[w].lam,
                                         b |-> draw_b(rng[g], job[w].lam, duopoly)]]
           /\ rng' = [rng EXCEPT ![g] = Advance(rng[g])]
    /\ UNCHANGED <<seeds, out, todo, inst, duopoly>>
    /\ UNCHANGED <<fcall, toy, solveVars>>

\* θ_draws[r, 0] = λ; θ_draws[r, 1] = b
body_write(w) ==
    /\ job[w].step = "write"
    /\ out' = [out EXCEPT ![inst][job[w].r] = <<job[w].lam, job[w].b>>]
    /\ job' = [job EXCEPT ![w] = IdleJob]
    /\ UNCHANGED <<seeds, rng, todo, inst, duopoly>>
    /\ UNCHANGED <<fcall, toy, solveVars>>

LoopDone == todo = {} /\ \A w \in Workers : job[w] = IdleJob

InitSample ==
    /\ duopoly \in SampleConfigs
    /\ seeds = <<>>
    /\ out = <<>>
    /\ rng = [w \in Workers |-> UnseededState(w)]
    /\ todo = {}
    /\ job = [w \in Workers |-> IdleJob]
    /\ inst = 0
    /\ toy = NoObject
    /\ FuncsUnused
    /\ SolveUnused

NextSample ==
    \/ theta_draws_call
    \/ \E w \in Workers : prange_take(w)
    \/ \E w \in Workers : body_seed(w)
    \/ \E w \in Workers : body_normal(w)
    \/ \E w \in Workers : body_beta(w)
    \/ \E w \in Workers : body_write(w)

SpecSample == InitSample /\ [][NextSample]_vars

\* C7: under every schedule of the parallel loop row r is what seeds[r] and
\* the parameters determine, so two constructions with one configuration hold
\* the same Population; and a step changes a row only for the thread that is
\* writing that row.
C7_RowsFromOwnSeed ==
    \A i \in 1..Len(out) : \A r \in 1..Len(out[i]) :
        out[i][r] # EmptyRow => out[i][r] = ReferenceRow(seeds[r], duopoly)

C7_SameConfigurationSamePopulation ==
    (inst = 2 /\ LoopDone) => out[1] = out[2]

C7_WritesOwnRow ==
    \A r \in 1..duopoly.N :
        (inst' = inst /\ out'[inst][r] # out[inst][r]) =>
            \E w \in Workers : job[w].step = "write" /\ job[w].r = r /\ job'[w] = IdleJob

C7_SamplingDeterministic ==
    /\ [](C7_RowsFromOwnSeed /\ C7_SameConfigurationSamePopulation)
    /\ [][C7_WritesOwnRow]_vars

\* C7 witness: both constructions are complete and two threads took part in
\* the second one.
C7_Witness ==
    /\ inst = 2
    /\ LoopDone
    /\ Len(out[2]) >= 2
    /\ \E w1 \in Workers, w2 \in Workers :
        /\ w1 # w2
        /\ rng[w1][2] \in {seeds[r] : r \in 1..Len(seeds)}
        /\ rng[w2][2] \in {seeds[r] : r \in 1..Len(seeds)}
        /\ rng[w1][2] # rng[w2][2]

-----------------------------------------------------------------------------
(* Claims about solve_duopoly and the Duopoly instance *)

AllNaN(res) == \A f \in DOMAIN res : res[f] = NaN

\* C4: when root reports no success (the iteration cap included) solve_duopoly
\* returns a result, prints "Optimization failed:" with root's message, and
\* every field of the result is NaN; a result with a field that is not NaN is
\* returned only after root reported success.
C4_FailureSentinel ==
    pc = "done" =>
        /\ ret.fn = "solve_duopoly"
        /\ DOMAIN ret.val = ResultFields
        /\ ~sol.success =>
              /\ AllNaN(ret.val)
              /\ stdout = << <<"Optimization failed:", sol.message>> >>
        /\ (\E f \in DOMAIN ret.val : ret.val[f] # NaN) => sol.success

\* C4 witness: solve_duopoly has returned after root exhausted the iteration cap.
C4_Witness ==
    /\ pc = "done"
    /\ ~sol.success
    /\ sol.message = MsgMaxiter
    /\ nit = maxiter

\* the residual the feasibility rule of the specification prescribes for firm i
PrescribedResidual(d, i, x1, x2) ==
    LET x == IF i = 1 THEN x1 ELSE x2
    IN  IF \/ RLt(x, Zero)
           \/ (IsRat(d.E_lam) /\ ExceedsXMax(i, x, d.g1, d.g2, d.E_lam, d.p))
           \/ RLe(Duopoly_Pi(d, i, x1, x2), Zero)
           \/ REq(Duopoly_q(d, i, x1, x2), Zero)
        THEN Penalty
        ELSE Duopoly_FOC(d, i, x1, x2)

\* C5: for each firm i the i-th residual FOCS returns is 1e10 when x_i < 0,
\* x_i > x_max(i), firm i's profit is non-positive or its share is zero, and
\* FOC_i(x1, x2) otherwise.
C5_ResidualPenalty ==
    pc = "evaluated" =>
        \A i \in Firms : F[i] = PrescribedResidual(duopoly, i, eq[1], eq[2])

\* C8: once the instance is constructed, no query and no step of solve_duopoly
\* changes the Population or a parameter of the instance.
C8_InstanceUnchanged == [][duopoly' = duopoly]_vars

\* C8 witness: solve_duopoly ran to a successful end on the instance.
C8_Witness ==
    /\ pc = "done"
    /\ sol.success
    /\ nit > 1
    /\ duopoly \in Instances

\* C9: the facade's tc(i, b) returns t1 * b for firm 1 and t2 * (1 - b) for firm 2.
C9_FacadeTransportCost ==
    ret.fn = "tc" =>
        /\ IsRat(ret.val)
        /\ ret.val = tc(ret.args[1], ret.args[2], duopoly.t1, duopoly.t2)

\* the penalty condition of solve_duopoly's FOCS, on the toy model's quantities
MainPenaltyCondition(ty, i, x1, x2) ==
    LET x == IF i = 1 THEN x1 ELSE x2
    IN  \/ RLt(x, Zero)
        \/ RLt(ToyDuopoly_pi(ty, i, x1, x2), Zero)
        \/ REq(ToyDuopoly_q(ty, i, x1, x2), Zero)

\* C6: solve_toy applies the penalty under the same conditions as
\* solve_duopoly, and its success and failure results carry the fields x1, x2,
\* q1, q2, q, foc_x1, foc_x2, pi1, pi2, each of them NaN on failure.
C6_ToyFollowsMain ==
    /\ pc = "evaluated" =>
          \A i \in Firms :
              (F[i] = Penalty) <=> MainPenaltyCondition(toy, i, eq[1], eq[2])
    /\ pc = "done" =>
          /\ DOMAIN ret.val = ResultFields
          /\ ~sol.success => AllNaN(ret.val)

-----------------------------------------------------------------------------
(* Claims about the functions of funcs.py *)

InUnit(v) == RLe(Zero, v) /\ RLe(v, One)

\* C1: for every Population and every (x1, x2, t1, t2) the two demand shares
\* add up to 1, the two counts add up to N, and each share lies in [0, 1].
C1_SharesComplementary ==
    fcall.fn = "Q" =>
        LET a == fcall.args
            other == Q(3 - a.i, a.x1, a.x2, a.th, a.N, a.t1, a.t2)
        IN  /\ REq(RAdd(fcall.val, other), One)
            /\ SumD(1, a.x1, a.x2, a.th, a.N, a.t1, a.t2)
                 + SumD(2, a.x1, a.x2, a.th, a.N, a.t1, a.t2) = a.N
            /\ InUnit(fcall.val)

\* C1 witness: a share strictly between 0 and 1 has been computed.
C1_Witness ==
    /\ fcall.fn = "Q"
    /\ RLt(Zero, fcall.val)
    /\ RLt(fcall.val, One)

NetUtility(i, x, lam, b, t1, t2) == RSub(U(x, lam), tc(i, b, t1, t2))

\* C2: D(1, ...) is 1 exactly when v1 >= v2 and D(2, ...) is 1 exactly when
\* v2 > v1, so a tie goes to firm 1 and every consumer has exactly one firm.
C2_IndicatorRule ==
    fcall.fn = "D" =>
        LET a  == fcall.args
            v1 == NetUtility(1, a.x1, a.lam, a.b, a.t1, a.t2)
            v2 == NetUtility(2, a.x2, a.lam, a.b, a.t1, a.t2)
        IN  /\ a.i = 1 => (fcall.val = 1 <=> RGe(v1, v2))
            /\ a.i = 2 => (fcall.val = 1 <=> RGt(v2, v1))
            /\ fcall.val \in {0, 1}
            /\ fcall.val + D(3 - a.i, a.x1, a.x2, a.lam, a.b, a.t1, a.t2) = 1
            /\ REq(v1, v2) => (fcall.val = 1 <=> a.i = 1)

\* C2 witness: firm 2 was asked about a consumer who is exactly indifferent.
C2_Witness ==
    /\ fcall.fn = "D"
    /\ fcall.args.i = 2
    /\ REq(NetUtility(1, fcall.args.x1, fcall.args.lam, fcall.args.b,
                      fcall.args.t1, fcall.args.t2),
           NetUtility(2, fcall.args.x2, fcall.args.lam, fcall.args.b,
                      fcall.args.t1, fcall.args.t2))
    /\ fcall.val = 0

\* C3: EXP_B is exactly 0 when the share Q of the same arguments is 0, and
\* otherwise (sum of F[r] * D[r]) / (N * Q).
C3_ConditionalExpectation ==
    fcall.fn = "EXP_B" =>
        LET a == fcall.args
            q == Q(a.i, a.x1, a.x2, a.th, a.N, a.t1, a.t2)
            s == SumFD(a.i, a.x1, a.x2, a.Fth, a.th, a.N, a.t1, a.t2)
        IN  IF REq(q, Zero)
            THEN fcall.val = Zero
            ELSE /\ IsRat(fcall.val)
                 /\ REq(RMul(fcall.val, RMul(<<a.N, 1>>, q)), s)

\* C3 witness: the share is 0 although some draw carries a non-zero F value.
C3_Witness ==
    /\ fcall.fn = "EXP_B"
    /\ REq(Q(fcall.args.i, fcall.args.x1, fcall.args.x2, fcall.args.th,
             fcall.args.N, fcall.args.t1, fcall.args.t2), Zero)
    /\ \E r \in 1..fcall.args.N : fcall.args.Fth[r] # Zero
    /\ fcall.val = Zero

=============================================================================
